---- MODULE Spec2Model ----
(***************************************************************************)
(* Model of scripts/smokeping-add.py: address discovery (scrape_ips with   *)
(* get_ipinfo) and the four-line formatter (fmt_smokeping).                *)
(*                                                                         *)
(* Spec    : one run of scrape_ips, statement by statement.                *)
(* FmtSpec : one run of fmt_smokeping, print by print.                     *)
(*                                                                         *)
(* A page body is a sequence of tokens.  A token is either one whole       *)
(* substring that IP4_RE or IP6_RE matches, an undecodable byte, or filler *)
(* text that neither pattern matches.  Every token counts one unit of      *)
(* length, and maxsize is scaled down to MaxSize units.                    *)
(***************************************************************************)
EXTENDS Integers, Sequences, FiniteSets, TLC

None == "None"

\* url_parts.netloc or url: the host name the run was started with.
netloc == "lg.example.net"

(***************************************************************************)
(* Bounds                                                                  *)
(***************************************************************************)
\* maxsize, in tokens (the default of the code is 65536 bytes).
MaxSize == 2
\* The transport delivers at most this many tokens that get decoded.
MaxBody == 3

(***************************************************************************)
(* Tokens and the library predicates on them                               *)
(***************************************************************************)
V4Global == {"8.8.8.8"}
V4NonGlobal == {"10.0.0.1", "127.0.0.1", "169.254.1.1"}
\* IP4_RE matches "1.2.3.4." inside "1.2.3.4.5"; ip_address() rejects it.
V4Malformed == {"1.2.3.4."}
V6Global == {"2606:4700::1111"}
V6NonGlobal == {"fe80::1"}
\* IP6_RE is a lazy check: it matches a time of day such as "12:30".
V6Malformed == {"12:30"}
InvalidByte == "<ff>"
Filler == "txt"

IP4_RE(tok) == tok \in V4Global \cup V4NonGlobal \cup V4Malformed
IP6_RE(tok) == tok \in V6Global \cup V6NonGlobal \cup V6Malformed

\* ipaddress.ip_address(s) returns (TRUE) or raises ValueError (FALSE).
ip_address(tok) == tok \in V4Global \cup V4NonGlobal \cup V6Global \cup V6NonGlobal

is_global(tok) == tok \in V4Global \cup V6Global

version(tok) == IF tok \in V4Global \cup V4NonGlobal THEN 4 ELSE 6

AddressLiterals == V4Global \cup V4NonGlobal \cup V6Global \cup V6NonGlobal

\* What a page is made of.
PageTokens ==
    {"8.8.8.8", "10.0.0.1", "1.2.3.4.", "2606:4700::1111", "fe80::1", "12:30",
     InvalidByte, Filler}

\* What socket.getaddrinfo may answer with.
DnsUniverse == {"8.8.8.8", "10.0.0.1", "2606:4700::1111"}

RECURSIVE SeqsUpTo(_, _)
SeqsUpTo(S, n) ==
    IF n = 0 THEN {<<>>}
    ELSE LET shorter == SeqsUpTo(S, n - 1)
         IN  shorter \cup {Append(s, x) : s \in {t \in shorter : Len(t) = n - 1}, x \in S}

\* r.iter_content(maxsize): a chunk is non-empty and at most maxsize long.
Chunks == SeqsUpTo(PageTokens, MaxSize) \ {<<>>}

\* chunk.decode('utf-8', 'ignore'): undecodable bytes are dropped.
Valid(tok) == tok # InvalidByte
decode(chunk) == SelectSeq(chunk, Valid)

\* IP4_RE.finditer(text), IP6_RE.finditer(text): the matches, in order.
finditer4(t) == SelectSeq(t, IP4_RE)
finditer6(t) == SelectSeq(t, IP6_RE)

(***************************************************************************)
(* get_ipinfo                                                              *)
(***************************************************************************)
\* dns.resolver.resolve(dns_query, 'TXT'): an answer, or a DNSException.
ResolveOutcomes == {"answer", "NXDOMAIN", "Timeout"}

\* A mutant: the DNSException is not caught.
get_ipinfo_uncaught(ip, outcome) ==
    IF outcome = "answer"
    THEN [raised |-> FALSE, value |-> "txt-record"]
    ELSE [raised |-> TRUE, value |-> outcome]

get_ipinfo(ip, outcome) ==
    IF outcome = "answer"
    THEN [raised |-> FALSE, value |-> "txt-record"]
    ELSE [raised |-> FALSE, value |-> "diagnostic"]

(***************************************************************************)
(* State of one run of scrape_ips                                          *)
(***************************************************************************)
VARIABLES
    pc,             \* position in scrape_ips
    force_dns,      \* argument
    dns_results,    \* line 42
    todo,           \* the part of dns_results the loop of line 47 has not visited
    ipv4, ipv6,     \* locals, and the returned pair when pc = "done"
    content_length, \* line 58
    total_length,   \* line 61
    text,           \* line 65; Unbound until the first chunk is decoded
    cands,          \* the matches the running finditer loop has not visited
    err,            \* the exception that ended the run, or None
    resp,           \* the streamed response: "none", "open" or "released"
    status_ok,      \* whether the response has a success status
    header_cl,      \* the response's Content-Length header, or Absent
    body,           \* history: the tokens of every chunk that was decoded
    truncated,      \* history: a chunk was fetched and thrown away (line 64)
    eof,            \* history: the body was read to its end
    n_chunks,       \* history: chunks decoded
    requests,       \* history: HTTP requests issued
    reads,          \* history: chunks requested from iter_content
    searches,       \* history: finditer calls
    asn_log,        \* history: what get_ipinfo returned, in order
    f_pc, f_args, f_vars, output   \* fmt_smokeping (FmtSpec)

scrape_vars ==
    <<pc, force_dns, dns_results, todo, ipv4, ipv6, content_length, total_length,
      text, cands, err, resp, status_ok, header_cl, body, truncated, eof, n_chunks,
      requests, reads, searches, asn_log>>
fmt_vars == <<f_pc, f_args, f_vars, output>>
vars == <<scrape_vars, fmt_vars>>

Unbound == <<"<unbound>">>
Absent == -1

\* The values a Content-Length header takes here: within and over the budget.
ContentLengths == {Absent, MaxSize, MaxSize + 1}

FmtIdle ==
    /\ f_pc = "idle"
    /\ f_args = <<>>
    /\ f_vars = <<>>
    /\ output = <<>>

\* The locals and the history of a run that has not started.
ScrapeLocals ==
    /\ dns_results = {}
    /\ todo = {}
    /\ ipv4 = None
    /\ ipv6 = None
    /\ content_length = 0
    /\ total_length = 0
    /\ text = Unbound
    /\ cands = <<>>
    /\ err = None
    /\ resp = "none"
    /\ status_ok = FALSE
    /\ header_cl = Absent
    /\ body = <<>>
    /\ truncated = FALSE
    /\ eof = FALSE
    /\ n_chunks = 0
    /\ requests = 0
    /\ reads = 0
    /\ searches = 0
    /\ asn_log = <<>>

ScrapeInit ==
    /\ pc = "resolve"
    /\ force_dns \in BOOLEAN
    /\ ScrapeLocals

Init == ScrapeInit /\ FmtIdle

\* The run ends with an exception.
Raise(e) ==
    /\ pc' = "failed"
    /\ err' = e

(***************************************************************************)
(* scrape_ips                                                              *)
(***************************************************************************)
\* Line 42: socket.getaddrinfo answers with a set of addresses, or raises.
Resolve ==
    /\ pc = "resolve"
    /\ \/ \E s \in SUBSET DnsUniverse :
            /\ dns_results' = s
            /\ todo' = IF force_dns THEN s ELSE {}
            /\ pc' = IF force_dns THEN "dns_loop" ELSE "request"
            /\ err' = err
       \/ /\ Raise("gaierror")
          /\ UNCHANGED <<dns_results, todo>>
    /\ UNCHANGED <<force_dns, ipv4, ipv6, content_length, total_length, text, cands,
                   resp, status_ok, header_cl, body, truncated, eof, n_chunks,
                   requests, reads, searches, asn_log, fmt_vars>>

\* A mutant: DNS-only mode reports the resolved literal.
dns_only_literal(cur, ip, v) ==
    IF cur = None /\ version(ip) = v THEN ip ELSE cur

\* Lines 50-53: the first address of a family sets that family to the host name.
dns_only(cur, ip, v) ==
    IF cur = None /\ version(ip) = v THEN netloc ELSE cur

\* Lines 47-54: the loop over dns_results (a set: any order) and its return.
DnsLoop ==
    /\ pc = "dns_loop"
    /\ IF todo = {}
       THEN /\ pc' = "done"
            /\ UNCHANGED <<ipv4, ipv6, todo>>
       ELSE \E ip \in todo :
            IF ipv4 # None /\ ipv6 # None
            THEN /\ pc' = "done"
                 /\ UNCHANGED <<ipv4, ipv6, todo>>
            ELSE /\ ipv4' = dns_only(ipv4, ip, 4)
                 /\ ipv6' = dns_only(ipv6, ip, 6)
                 /\ todo' = todo \ {ip}
                 /\ pc' = pc
    /\ UNCHANGED <<force_dns, dns_results, content_length, total_length, text, cands,
                   err, resp, status_ok, header_cl, body, truncated, eof, n_chunks,
                   requests, reads, searches, asn_log, fmt_vars>>

\* Line 56: requests.get(..., stream=True) opens the response, or raises.
Request ==
    /\ pc = "request"
    /\ requests' = requests + 1
    /\ \/ \E ok \in BOOLEAN, cl \in ContentLengths :
            /\ resp' = "open"
            /\ status_ok' = ok
            /\ header_cl' = cl
            /\ pc' = "status"
            /\ err' = err
       \/ /\ Raise("ConnectionError")
          /\ UNCHANGED <<resp, status_ok, header_cl>>
    /\ UNCHANGED <<force_dns, dns_results, todo, ipv4, ipv6, content_length,
                   total_length, text, cands, body, truncated, eof, n_chunks, reads,
                   searches, asn_log, fmt_vars>>

\* Line 57: r.raise_for_status().
RaiseForStatus ==
    /\ pc = "status"
    /\ IF status_ok
       THEN /\ pc' = "length"
            /\ err' = err
       ELSE Raise("HTTPError")
    /\ UNCHANGED <<force_dns, dns_results, todo, ipv4, ipv6, content_length,
                   total_length, text, cands, resp, status_ok, header_cl, body,
                   truncated, eof, n_chunks, requests, reads, searches, asn_log,
                   fmt_vars>>

\* A mutant: the comparison of line 59 lets a body one unit over the budget in.
exceeds_off_by_one(n) == n > MaxSize + 1

\* Line 59: content_length > maxsize.
exceeds(n) == n > MaxSize

\* Lines 58-61: the Content-Length check.
CheckLength ==
    /\ pc = "length"
    /\ content_length' = IF header_cl = Absent THEN 0 ELSE header_cl
    /\ IF exceeds(content_length')
       THEN Raise("ValueError: HTTP response too large")
       ELSE /\ pc' = "read"
            /\ err' = err
    /\ total_length' = 0
    /\ UNCHANGED <<force_dns, dns_results, todo, ipv4, ipv6, text, cands, resp,
                   status_ok, header_cl, body, truncated, eof, n_chunks, requests,
                   reads, searches, asn_log, fmt_vars>>

\* Lines 62-66: one turn of the loop over r.iter_content(maxsize).  The
\* generator yields the next chunk, which line 64 throws away unread once
\* total_length is over maxsize, or it is exhausted; urllib3 gives the
\* connection back to its pool when the body has been read to its end.
ReadChunk ==
    /\ pc = "read"
    /\ reads' = reads + 1
    /\ \/ /\ total_length > MaxSize
          /\ truncated' = TRUE
          /\ pc' = "search4"
          /\ UNCHANGED <<text, total_length, body, n_chunks>>
          /\ UNCHANGED <<resp, eof>>
       \/ /\ total_length <= MaxSize
          /\ \E chunk \in Chunks :
               /\ Len(body) + Len(chunk) <= MaxBody
               /\ text' = decode(chunk)
               /\ total_length' = total_length + Len(text')
               /\ body' = body \o chunk
               /\ n_chunks' = n_chunks + 1
               /\ pc' = pc
               /\ truncated' = truncated
          /\ UNCHANGED <<resp, eof>>
       \/ /\ eof' = TRUE
          /\ resp' = "released"
          /\ pc' = "search4"
          /\ UNCHANGED <<text, total_length, body, n_chunks, truncated>>
    /\ UNCHANGED <<force_dns, dns_results, todo, ipv4, ipv6, content_length, cands,
                   err, status_ok, header_cl, requests, searches, asn_log, fmt_vars>>

\* Lines 74-75 and 84-85: an address the host resolves to is shown by name.
host_or_literal(lit, dns) == IF lit \in dns THEN netloc ELSE lit

\* Line 68: IP4_RE.finditer(text); text is unbound when no chunk was decoded.
Search4 ==
    /\ pc = "search4"
    /\ IF text = Unbound
       THEN /\ Raise("UnboundLocalError")
            /\ UNCHANGED <<cands, searches>>
       ELSE /\ cands' = finditer4(text)
            /\ searches' = searches + 1
            /\ pc' = "loop4"
            /\ err' = err
    /\ UNCHANGED <<force_dns, dns_results, todo, ipv4, ipv6, content_length,
                   total_length, text, resp, status_ok, header_cl, body, truncated,
                   eof, n_chunks, requests, reads, asn_log, fmt_vars>>

\* Lines 68-76: one turn of the IPv4 loop.
Loop4 ==
    /\ pc = "loop4"
    /\ IF cands = <<>>
       THEN /\ pc' = "search6"
            /\ UNCHANGED <<ipv4, cands, err, asn_log>>
       ELSE LET m_ipv4 == Head(cands) IN
            IF ~ip_address(m_ipv4)
            THEN /\ ipv4' = m_ipv4
                 /\ Raise("ValueError: ip_address")
                 /\ UNCHANGED <<cands, asn_log>>
            ELSE IF ~is_global(m_ipv4)
            THEN /\ ipv4' = m_ipv4
                 /\ cands' = Tail(cands)
                 /\ UNCHANGED <<pc, err, asn_log>>
            ELSE \E outcome \in ResolveOutcomes :
                 LET info == get_ipinfo(m_ipv4, outcome) IN
                 IF info.raised
                 THEN /\ ipv4' = m_ipv4
                      /\ Raise("DNSException")
                      /\ UNCHANGED <<cands, asn_log>>
                 ELSE /\ asn_log' = Append(asn_log, info.value)
                      /\ ipv4' = host_or_literal(m_ipv4, dns_results)
                      /\ cands' = <<>>
                      /\ pc' = "search6"
                      /\ err' = err
    /\ UNCHANGED <<force_dns, dns_results, todo, ipv6, content_length, total_length,
                   text, resp, status_ok, header_cl, body, truncated, eof, n_chunks,
                   requests, reads, searches, fmt_vars>>

\* Line 77: IP6_RE.finditer(text).
Search6 ==
    /\ pc = "search6"
    /\ cands' = finditer6(text)
    /\ searches' = searches + 1
    /\ pc' = "loop6"
    /\ UNCHANGED <<force_dns, dns_results, todo, ipv4, ipv6, content_length,
                   total_length, text, err, resp, status_ok, header_cl, body,
                   truncated, eof, n_chunks, requests, reads, asn_log, fmt_vars>>

\* Lines 77-90: one turn of the IPv6 loop; a ValueError is caught.
Loop6 ==
    /\ pc = "loop6"
    /\ IF cands = <<>>
       THEN /\ pc' = "assert"
            /\ UNCHANGED <<ipv6, cands, err, asn_log>>
       ELSE LET m_ipv6 == Head(cands) IN
            IF ~ip_address(m_ipv6)
            THEN /\ ipv6' = None
                 /\ cands' = Tail(cands)
                 /\ UNCHANGED <<pc, err, asn_log>>
            ELSE IF ~is_global(m_ipv6)
            THEN /\ ipv6' = m_ipv6
                 /\ cands' = Tail(cands)
                 /\ UNCHANGED <<pc, err, asn_log>>
            ELSE \E outcome \in ResolveOutcomes :
                 LET info == get_ipinfo(m_ipv6, outcome) IN
                 IF info.raised
                 THEN /\ ipv6' = m_ipv6
                      /\ Raise("DNSException")
                      /\ UNCHANGED <<cands, asn_log>>
                 ELSE /\ asn_log' = Append(asn_log, info.value)
                      /\ ipv6' = host_or_literal(m_ipv6, dns_results)
                      /\ cands' = <<>>
                      /\ pc' = "assert"
                      /\ err' = err
    /\ UNCHANGED <<force_dns, dns_results, todo, ipv4, content_length, total_length,
                   text, resp, status_ok, header_cl, body, truncated, eof, n_chunks,
                   requests, reads, searches, fmt_vars>>

\* Lines 91-92: assert ipv4 or ipv6; return ipv4, ipv6.
AssertReturn ==
    /\ pc = "assert"
    /\ IF ipv4 # None \/ ipv6 # None
       THEN /\ pc' = "done"
            /\ err' = err
       ELSE Raise("AssertionError")
    /\ UNCHANGED <<force_dns, dns_results, todo, ipv4, ipv6, content_length,
                   total_length, text, cands, resp, status_ok, header_cl, body,
                   truncated, eof, n_chunks, requests, reads, searches, asn_log,
                   fmt_vars>>

Next ==
    \/ Resolve
    \/ DnsLoop
    \/ Request
    \/ RaiseForStatus
    \/ CheckLength
    \/ ReadChunk
    \/ Search4
    \/ Loop4
    \/ Search6
    \/ Loop6
    \/ AssertReturn

Spec == Init /\ [][Next]_vars

Returned == pc = "done"
Failed == pc = "failed"
Terminated == Returned \/ Failed

(***************************************************************************)
(* Strings of fmt_smokeping: a string is the sequence of its characters.   *)
(***************************************************************************)
LowerCase == <<"a", "b", "c", "d", "e", "f", "g", "h", "i", "j", "k", "l", "m", "n", "o", "p", "q", "r", "s", "t", "u", "v", "w", "x", "y", "z">>
UpperCase == <<"A", "B", "C", "D", "E", "F", "G", "H", "I", "J", "K", "L", "M", "N", "O", "P", "Q", "R", "S", "T", "U", "V", "W", "X", "Y", "Z">>
Letters == 1..26

IsLower(c) == \E i \in Letters : LowerCase[i] = c
IsUpper(c) == \E i \in Letters : UpperCase[i] = c
to_upper(c) == IF IsLower(c) THEN UpperCase[CHOOSE i \in Letters : LowerCase[i] = c] ELSE c
to_lower(c) == IF IsUpper(c) THEN LowerCase[CHOOSE i \in Letters : UpperCase[i] = c] ELSE c

\* str.upper()
upper(s) == [i \in 1..Len(s) |-> to_upper(s[i])]

\* str.title(): a letter that follows a letter is lowered, any other is raised.
title(s) ==
    [i \in 1..Len(s) |->
        IF i > 1 /\ (IsLower(s[i - 1]) \/ IsUpper(s[i - 1]))
        THEN to_lower(s[i])
        ELSE to_upper(s[i])]

\* '+' * levels
repeat(c, n) == [i \in 1..n |-> c]

\* s.split(sep)[0]
split_first(s, sep) ==
    LET at == {i \in 1..Len(s) : s[i] = sep}
    IN  IF at = {} THEN s
        ELSE SubSeq(s, 1, (CHOOSE i \in at : \A j \in at : i <= j) - 1)

\* str.strip()
strip(s) ==
    LET ink == {i \in 1..Len(s) : s[i] # " "}
    IN  IF ink = {} THEN <<>>
        ELSE SubSeq(s, CHOOSE i \in ink : \A j \in ink : i <= j,
                       CHOOSE i \in ink : \A j \in ink : i >= j)

\* sub in s
contains(sub, s) ==
    \E i \in 0..(Len(s) - Len(sub)) : SubSeq(s, i + 1, i + Len(sub)) = sub

NoEntry == <<"<", "N", "o", "n", "e", ">">>

\* pycountry.countries.get(alpha_2=code): the entry's name, or no entry.
pycountry_get(code) ==
    CASE code = <<"U", "S">> -> <<"U", "n", "i", "t", "e", "d", " ", "S", "t", "a", "t", "e", "s">>
      [] code = <<"C", "A">> -> <<"C", "a", "n", "a", "d", "a">>
      [] code = <<"G", "B">> -> <<"U", "n", "i", "t", "e", "d", " ", "K", "i", "n", "g", "d", "o", "m">>
      [] code = <<"D", "E">> -> <<"G", "e", "r", "m", "a", "n", "y">>
      [] code = <<"F", "R">> -> <<"F", "r", "a", "n", "c", "e">>
      [] code = <<"C", "N">> -> <<"C", "h", "i", "n", "a">>
      [] code = <<"R", "U">> -> <<"R", "u", "s", "s", "i", "a", "n", " ", "F", "e", "d", "e", "r", "a", "t", "i", "o", "n">>
      [] code = <<"I", "N">> -> <<"I", "n", "d", "i", "a">>
      [] code = <<"B", "R">> -> <<"B", "r", "a", "z", "i", "l">>
      [] code = <<"J", "P">> -> <<"J", "a", "p", "a", "n">>
      [] code = <<"A", "U">> -> <<"A", "u", "s", "t", "r", "a", "l", "i", "a">>
      [] code = <<"S", "G">> -> <<"S", "i", "n", "g", "a", "p", "o", "r", "e">>
      [] code = <<"H", "K">> -> <<"H", "o", "n", "g", " ", "K", "o", "n", "g">>
      [] code = <<"M", "O">> -> <<"M", "a", "c", "a", "o">>
      [] OTHER -> NoEntry

(***************************************************************************)
(* Inputs of fmt_smokeping                                                 *)
(***************************************************************************)
MaxLevels == 2

EntryNames == {<<"T", "e", "s", "t">>}
Addresses == {<<"1", ".", "2", ".", "3", ".", "4">>, <<"5", ".", "6", ".", "7", ".", "8">>}
Isps == {<<"A", "C", "M", "E", " ", "@", " ", "D", "C", "1">>, <<"A", "c", "m", "e">>}
CountryInputs ==
    {<<"u", "s">>, <<"C", "A">>, <<"u", "k">>, <<"d", "e">>, <<"j", "p">>, <<"a", "u">>,
     <<"s", "g">>, <<"h", "k">>, <<"r", "u">>, <<"x", "x">>}
ProvinceInputs == {<<"n", "y">>, <<"c", "a">>, <<>>}
CityInputs ==
    {<<"B", "u", "f", "f", "a", "l", "o">>,
     <<"n", "e", "w", " ", "y", "o", "r", "k">>,
     <<"L", "o", "n", "d", "o", "n">>,
     <<"T", "o", "k", "y", "o">>,
     <<"S", "y", "d", "n", "e", "y">>,
     <<>>}

\* The locals of fmt_smokeping before they are assigned.
NoLocals ==
    [hdr |-> <<>>, country |-> <<>>, province |-> <<>>, city |-> <<>>,
     pycountry_country |-> <<>>, pycountry_entry |-> <<>>, isp_short |-> <<>>,
     cc_prefix |-> <<>>, loc |-> <<>>]

\* A call of fmt_smokeping, with no run of scrape_ips under way.
FmtInit ==
    /\ pc = "idle"
    /\ force_dns = FALSE
    /\ ScrapeLocals
    /\ f_pc = "enter"
    /\ f_args \in [entry_name : EntryNames, address : Addresses, isp : Isps,
                   country : CountryInputs, province : ProvinceInputs,
                   city : CityInputs, levels : -1..MaxLevels]
    /\ f_vars = NoLocals
    /\ output = <<>>

print(line) == output' = Append(output, line)

(***************************************************************************)
(* fmt_smokeping                                                           *)
(***************************************************************************)
\* Lines 100-104: assert levels >= 0, then normalise the arguments.
FmtNormalise ==
    /\ f_pc = "enter"
    /\ IF f_args.levels >= 0
       THEN /\ f_vars' = [f_vars EXCEPT !.hdr = repeat("+", f_args.levels),
                                        !.country = upper(f_args.country),
                                        !.province = upper(f_args.province),
                                        !.city = title(f_args.city)]
            /\ f_pc' = "header"
       ELSE /\ f_pc' = "failed"
            /\ f_vars' = f_vars
    /\ UNCHANGED <<f_args, output, scrape_vars>>

\* Line 105: print(f'{hdr} {entry_name}').
FmtHeader ==
    /\ f_pc = "header"
    /\ print(f_vars.hdr \o <<" ">> \o f_args.entry_name)
    /\ f_pc' = "lookup"
    /\ UNCHANGED <<f_args, f_vars, scrape_vars>>

\* Lines 107-111: the ISO lookup (UK is looked up as GB) and its assert.
FmtLookup ==
    /\ f_pc = "lookup"
    /\ LET pycountry_country ==
               IF f_vars.country = <<"U", "K">> THEN <<"G", "B">> ELSE f_vars.country
           pycountry_entry == pycountry_get(pycountry_country)
       IN  /\ f_vars' = [f_vars EXCEPT !.pycountry_country = pycountry_country,
                                       !.pycountry_entry = pycountry_entry]
           /\ f_pc' = IF pycountry_entry # NoEntry THEN "location" ELSE "failed"
    /\ UNCHANGED <<f_args, output, scrape_vars>>

\* Lines 113-129: isp_short, cc_prefix, the city overrides and loc.  Line 126
\* asks the code string, not the entry, for common_name: it always gets the
\* entry's name.
FmtLocation ==
    /\ f_pc = "location"
    /\ LET country == f_vars.country
           province == f_vars.province
           isp_short == strip(split_first(f_args.isp, "@"))
       IN  IF country \in {<<"C", "A">>, <<"U", "S">>}
           THEN f_vars' = [f_vars EXCEPT
                    !.isp_short = isp_short,
                    !.cc_prefix = <<"[">> \o country \o <<"/">> \o province \o <<"]">>,
                    !.loc = f_vars.city \o <<",", " ">> \o province \o <<",", " ">> \o country]
           ELSE LET country_display ==
                        IF country \in {<<"H", "K">>, <<"M", "O">>} THEN <<"C", "h", "i", "n", "a">>
                        ELSE IF country = <<"R", "U">> THEN <<"R", "u", "s", "s", "i", "a">>
                        ELSE f_vars.pycountry_entry
                    city ==
                        IF country = <<"S", "G">> THEN <<>>
                        ELSE IF country \in {<<"H", "K">>, <<"M", "O">>} THEN f_vars.pycountry_entry
                        ELSE f_vars.city
                IN  f_vars' = [f_vars EXCEPT
                        !.isp_short = isp_short,
                        !.cc_prefix = country,
                        !.city = city,
                        !.loc = IF city # <<>> THEN city \o <<",", " ">> \o country_display
                                ELSE country_display]
    /\ f_pc' = "menu"
    /\ UNCHANGED <<f_args, output, scrape_vars>>

\* Line 131: the prefixes whose menu line always shows the city.
AlwaysShowCity ==
    {<<"U", "S", "/", "C", "A">>, <<"D", "E">>, <<"F", "R">>, <<"C", "N">>, <<"R", "U">>, <<"I", "N">>, <<"B", "R">>}

\* Lines 131-135: whether the menu line shows the city.
show_city(cc_prefix, city) ==
    /\ city # <<>>
    /\ \/ cc_prefix \in AlwaysShowCity
       \/ cc_prefix = <<"U", "K">> /\ ~contains(<<"L", "o", "n", "d", "o", "n">>, city)
       \/ cc_prefix = <<"J", "P">> /\ ~contains(<<"T", "o", "k", "y", "o">>, city)
       \/ cc_prefix = <<"U", "S", "/", "N", "Y">> /\ ~contains(<<"N", "e", "w", " ", "Y", "o", "r", "k">>, city)
       \/ cc_prefix = <<"A", "U">> /\ ~contains(<<"S", "y", "d", "n", "e", "y">>, city)

menu_eq == <<"m", "e", "n", "u", " ", "=", " ">>
title_eq == <<"t", "i", "t", "l", "e", " ", "=", " ">>
host_eq == <<"h", "o", "s", "t", " ", "=", " ">>

\* Lines 131-138: the menu line.
FmtMenu ==
    /\ f_pc = "menu"
    /\ IF show_city(f_vars.cc_prefix, f_vars.city)
       THEN print(menu_eq \o <<"[">> \o f_vars.cc_prefix \o <<"]", " ">> \o f_vars.isp_short
                  \o <<" ", "(">> \o f_vars.city \o <<")">>)
       ELSE print(menu_eq \o <<"[">> \o f_vars.cc_prefix \o <<"]", " ">> \o f_vars.isp_short)
    /\ f_pc' = "title"
    /\ UNCHANGED <<f_args, f_vars, scrape_vars>>

\* Line 139: the title line.
FmtTitle ==
    /\ f_pc = "title"
    /\ print(title_eq \o <<"[">> \o f_vars.cc_prefix \o <<"]", " ">> \o f_args.isp
             \o <<" ", "-", " ">> \o f_vars.loc \o <<" ", "[">> \o f_args.address \o <<"]">>)
    /\ f_pc' = "host"
    /\ UNCHANGED <<f_args, f_vars, scrape_vars>>

\* Line 140: the host line; the function returns.
FmtHost ==
    /\ f_pc = "host"
    /\ print(host_eq \o f_args.address)
    /\ f_pc' = "done"
    /\ UNCHANGED <<f_args, f_vars, scrape_vars>>

FmtNext ==
    \/ FmtNormalise
    \/ FmtHeader
    \/ FmtLookup
    \/ FmtLocation
    \/ FmtMenu
    \/ FmtTitle
    \/ FmtHost

FmtSpec == FmtInit /\ [][FmtNext]_vars

(***************************************************************************)
(* Properties of scrape_ips (checked under Spec)                           *)
(***************************************************************************)
TooLarge == "ValueError: HTTP response too large"

Tokens(s) == {s[i] : i \in DOMAIN s}

\* The tokens of the page that IP4_RE or IP6_RE matches and that are the
\* literal of a globally routable address.
GlobalV4In(s) == {i \in DOMAIN s : s[i] \in V4Global}
GlobalIn(s) == Tokens(s) \cap (V4Global \cup V6Global)

\* C1: in scrape mode a normal return never hands back the literal of an
\* address that is not globally routable: each of ipv4, ipv6 is None, the host
\* name, or the literal of a globally routable address found in the page.
C1_NoNonGlobalReturned ==
    (Returned /\ ~force_dns) =>
        \A v \in {ipv4, ipv6} :
            v = None \/ v = netloc \/ v \in GlobalIn(body)

\* C5: in scrape mode, a body within the byte budget that holds exactly one
\* globally routable IPv4 literal and no IPv6 literal (and nothing else that
\* IP4_RE matches), read to its end in whatever chunks the transport delivers,
\* makes scrape_ips return ipv6 = None and ipv4 = that literal, or the host
\* name when the address is in the resolved set.
C5_Precondition ==
    /\ ~force_dns
    /\ eof
    /\ ~truncated
    /\ Len(body) <= MaxSize
    /\ Cardinality(GlobalV4In(body)) = 1
    /\ Tokens(body) \cap (V6Global \cup V6NonGlobal \cup V4NonGlobal \cup V4Malformed) = {}

C5_OneGlobalV4AnyChunking ==
    (Terminated /\ C5_Precondition) =>
        /\ Returned
        /\ ipv6 = None
        /\ ipv4 = host_or_literal(body[CHOOSE i \in GlobalV4In(body) : TRUE], dns_results)

\* C6, as stated: a response whose Content-Length exceeds maxsize makes
\* scrape_ips fail with the size-exceeded error, with no body read, no pattern
\* search and no ASN lookup.
C6_AsStated ==
    (Terminated /\ resp # "none" /\ header_cl # Absent /\ header_cl > MaxSize) =>
        /\ err = TooLarge
        /\ reads = 0
        /\ searches = 0
        /\ asn_log = <<>>

\* C6, amended: once a response whose Content-Length exceeds maxsize is open,
\* the run never reads the body, never searches and never looks up an ASN, and
\* it never returns; it fails with the size-exceeded error when the status is a
\* success, and with the HTTP status error of raise_for_status otherwise.
C6_NoReadBeforeSizeFailure ==
    (resp # "none" /\ header_cl # Absent /\ header_cl > MaxSize) =>
        /\ pc \in {"status", "length", "failed"}
        /\ reads = 0
        /\ searches = 0
        /\ asn_log = <<>>
        /\ text = Unbound
        /\ Failed => err = IF status_ok THEN TooLarge ELSE "HTTPError"

C6_Witness ==
    /\ Failed
    /\ status_ok
    /\ header_cl = MaxSize + 1
    /\ content_length > MaxSize
    /\ err = TooLarge
    /\ reads = 0

\* C7: in DNS-only mode scrape_ips issues no HTTP request and no ASN lookup,
\* and returns normally, also for a resolved set with neither family; ipv4 is
\* the host name iff the resolved set holds an IPv4 address and None otherwise,
\* likewise ipv6; no returned value is an address literal.
C7_DnsOnlyByName ==
    force_dns =>
        /\ requests = 0
        /\ resp = "none"
        /\ searches = 0
        /\ asn_log = <<>>
        /\ ipv4 \notin AddressLiterals
        /\ ipv6 \notin AddressLiterals
        /\ Failed => (err = "gaierror" /\ dns_results = {})
        /\ Returned =>
              /\ err = None
              /\ ipv4 = IF \E a \in dns_results : version(a) = 4 THEN netloc ELSE None
              /\ ipv6 = IF \E a \in dns_results : version(a) = 6 THEN netloc ELSE None

C7_Witness ==
    /\ force_dns
    /\ Returned
    /\ dns_results = {"8.8.8.8", "10.0.0.1"}
    /\ ipv4 = netloc
    /\ ipv6 = None

\* C8: in scrape mode, when no candidate of either family is accepted (the
\* text searched holds no literal of a globally routable address) scrape_ips
\* fails and returns nothing; a normal return has ipv4 or ipv6 present.
C8_NoAddressIsFatal ==
    (Returned /\ ~force_dns) =>
        /\ ipv4 # None \/ ipv6 # None
        /\ GlobalIn(text) # {}

\* C9: in every terminal state of a run that opened the streamed response,
\* the response has been released.
C9_ResponseReleased ==
    (Terminated /\ resp # "none") => resp = "released"

\* What the two loops of lines 68-90 leave in ipv4 and ipv6 when every ASN
\* lookup succeeds.
RECURSIVE ref_loop4(_, _, _)
ref_loop4(ms, cur, dns) ==
    IF ms = <<>> THEN [err |-> None, v |-> cur]
    ELSE IF ~ip_address(Head(ms)) THEN [err |-> "ValueError: ip_address", v |-> Head(ms)]
    ELSE IF ~is_global(Head(ms)) THEN ref_loop4(Tail(ms), Head(ms), dns)
    ELSE [err |-> None, v |-> host_or_literal(Head(ms), dns)]

RECURSIVE ref_loop6(_, _, _)
ref_loop6(ms, cur, dns) ==
    IF ms = <<>> THEN cur
    ELSE IF ~ip_address(Head(ms)) THEN ref_loop6(Tail(ms), None, dns)
    ELSE IF ~is_global(Head(ms)) THEN ref_loop6(Tail(ms), Head(ms), dns)
    ELSE host_or_literal(Head(ms), dns)

ref_scrape(t, dns) ==
    LET r4 == ref_loop4(finditer4(t), None, dns)
        r6 == ref_loop6(finditer6(t), None, dns)
    IN  IF r4.err # None THEN [err |-> r4.err, ipv4 |-> r4.v, ipv6 |-> None]
        ELSE IF r4.v = None /\ r6 = None
        THEN [err |-> "AssertionError", ipv4 |-> None, ipv6 |-> None]
        ELSE [err |-> None, ipv4 |-> r4.v, ipv6 |-> r6]

\* C10: the ASN lookup never aborts the pipeline: get_ipinfo always returns a
\* string (the TXT record or a diagnostic), no run ends with the resolver's
\* exception, and every run that got to search its text ends as it does when
\* every lookup succeeds: same failure or same returned ipv4 and ipv6.
C10_LookupNeverAborts ==
    /\ err # "DNSException"
    /\ \A i \in DOMAIN asn_log : asn_log[i] \in {"txt-record", "diagnostic"}
    /\ (Terminated /\ searches > 0) =>
          LET ref == ref_scrape(text, dns_results)
          IN  /\ err = ref.err
              /\ Returned <=> ref.err = None
              /\ Returned => (ipv4 = ref.ipv4 /\ ipv6 = ref.ipv6)

C10_Witness ==
    /\ Returned
    /\ asn_log = <<"diagnostic", "diagnostic">>
    /\ ipv4 = netloc
    /\ ipv6 = "2606:4700::1111"

(***************************************************************************)
(* Properties of fmt_smokeping (checked under FmtSpec)                     *)
(***************************************************************************)
UsOrCa == upper(f_args.country) \in {<<"U", "S">>, <<"C", "A">>}

\* The prefix as the always-show set and the default-city rule of the code
\* spell it: COUNTRY/PROVINCE for US and CA, the country code otherwise.
PlainPrefix ==
    IF UsOrCa THEN upper(f_args.country) \o <<"/">> \o upper(f_args.province)
    ELSE upper(f_args.country)

IspShort == strip(split_first(f_args.isp, "@"))

C2_Example ==
    [entry_name |-> <<"T", "e", "s", "t">>, address |-> <<"1", ".", "2", ".", "3", ".", "4">>,
     isp |-> <<"A", "C", "M", "E", " ", "@", " ", "D", "C", "1">>, country |-> <<"u", "s">>,
     province |-> <<"n", "y">>, city |-> <<"B", "u", "f", "f", "a", "l", "o">>, levels |-> 2]

\* C2: for country US or CA (with a province and a city), in any case of the
\* input, fmt_smokeping prints exactly four lines: the
\* header, "menu = [COUNTRY/PROVINCE] isp_short" with an optional " (City)",
\* "title = [COUNTRY/PROVINCE] isp - City, PROVINCE, COUNTRY [address]" and
\* "host = address", the prefix in exactly one pair of brackets; the example
\* of the specification prints the four lines it gives.
C2_UsCaFourLines ==
    (f_pc = "done" /\ UsOrCa /\ f_args.province # <<>> /\ f_args.city # <<>>) =>
        LET City == title(f_args.city)
            menu == menu_eq \o <<"[">> \o PlainPrefix \o <<"]", " ">> \o IspShort
        IN  /\ Len(output) = 4
            /\ output[1] = repeat("+", f_args.levels) \o <<" ">> \o f_args.entry_name
            /\ output[2] \in {menu, menu \o <<" ", "(">> \o City \o <<")">>}
            /\ output[3] = title_eq \o <<"[">> \o PlainPrefix \o <<"]", " ">> \o f_args.isp
                              \o <<" ", "-", " ">> \o City \o <<",", " ">>
                              \o upper(f_args.province) \o <<",", " ">>
                              \o upper(f_args.country)
                              \o <<" ", "[">> \o f_args.address \o <<"]">>
            /\ output[4] = host_eq \o f_args.address
            /\ f_args = C2_Example =>
                  output = << <<"+", "+", " ", "T", "e", "s", "t">>,
                              <<"m", "e", "n", "u", " ", "=", " ", "[", "U", "S", "/", "N", "Y", "]", " ", "A", "C", "M", "E", " ", "(", "B", "u", "f", "f", "a", "l", "o", ")">>,
                              <<"t", "i", "t", "l", "e", " ", "=", " ", "[", "U", "S", "/", "N", "Y", "]", " ", "A", "C", "M", "E", " ", "@", " ", "D", "C", "1", " ", "-", " ", "B", "u", "f", "f", "a", "l", "o", ",", " ", "N", "Y", ",", " ", "U", "S", " ", "[", "1", ".", "2", ".", "3", ".", "4", "]">>,
                              <<"h", "o", "s", "t", " ", "=", " ", "1", ".", "2", ".", "3", ".", "4">> >>

\* C3: for a valid record (a province with US and CA) the menu line ends in
\* " (City)" exactly when the city, after the overrides, is non-empty and the prefix is in the always-show set or is
\* UK, JP, US/NY or AU with a city that does not contain London, Tokyo,
\* New York or Sydney; with US/NY and New York the title line still names
\* the city.
C3_MenuCitySuffix ==
    (f_pc = "done" /\ (UsOrCa => f_args.province # <<>>)) =>
        LET menu == menu_eq \o <<"[">> \o f_vars.cc_prefix \o <<"]", " ">> \o IspShort
        IN  /\ output[2] = IF show_city(PlainPrefix, f_vars.city)
                           THEN menu \o <<" ", "(">> \o f_vars.city \o <<")">>
                           ELSE menu
            /\ (PlainPrefix = <<"U", "S", "/", "N", "Y">> /\ contains(<<"N", "e", "w", " ", "Y", "o", "r", "k">>, f_vars.city)) =>
                  contains(<<"N", "e", "w", " ", "Y", "o", "r", "k">>, output[3])

\* C4: with a country code that is not in the ISO table (after upper-casing
\* and the UK to GB alias) fmt_smokeping fails, and has printed nothing when
\* it fails.
UnknownCountry ==
    /\ f_args.levels >= 0
    /\ pycountry_get(IF upper(f_args.country) = <<"U", "K">> THEN <<"G", "B">>
                     ELSE upper(f_args.country)) = NoEntry

C4_UnknownCountryNoOutput ==
    UnknownCountry =>
        /\ f_pc \in {"enter", "header", "lookup", "failed"}
        /\ f_pc = "failed" => output = <<>>

====
